---- MODULE Spec2Model ----
(***************************************************************************)
(* Model of fpd_daily.py: the Streamlit script that loads the credit       *)
(* records of fpd_gemini.parquet, filters them by the sidebar selections,  *)
(* drops the most recent cosecha and shows grouped FPD rates in four tabs. *)
(*                                                                         *)
(* One run of the script is one pass sidebar -> get_main_data -> global    *)
(* filter -> tab 1 -> tab 2 -> tab 3 -> tab 4.  An uncaught exception ends *)
(* the run (pc = "aborted").  A user interaction reruns the script with a  *)
(* fresh namespace.                                                        *)
(*                                                                         *)
(* Text values are sequences of one-character strings, so that quoting     *)
(* (to_sql_list), date parsing (strptime) and LIKE '%NOMINA%' are computed *)
(* on the characters.  A nullable column holds NULL (<<>>) or Some(v).     *)
(* cosecha_id, the fixed-width text strftime(fecha_dt, '%Y%m'), is held as *)
(* the number year * 100 + month: for four-digit years the text order the  *)
(* script uses (<, max, sorted) is the order of these numbers.             *)
(***************************************************************************)
EXTENDS Integers, Sequences, FiniteSets, TLC

----------------------------------------------------------------------------
(* Nullable values and text                                                *)

NULL == <<>>
Some(x) == <<x>>

\* SQL COALESCE(v, d)
Coalesce(v, d) == IF v = NULL THEN d ELSE v[1]

NA == <<"N", "/", "A">>
FPD == <<"F", "P", "D">>
NP == <<"N", "P">>
NOMINA == <<"N", "O", "M", "I", "N", "A">>
Formers == <<"F", "o", "r", "m", "e", "r", "s">>
SucNomina ==
  <<"9", "9", "9", ".", "E", "M", "P", "R", "E", "S", "A", " ", "N", "O", "M",
    "I", "N", "A", " ", "C", "O", "L", "A", "B", "O", "R", "A", "D", "O", "R",
    "E", "S">>

DigitChars == <<"0", "1", "2", "3", "4", "5", "6", "7", "8", "9">>

IsDigit(c) == \E i \in 1..10 : DigitChars[i] = c

DigitVal(c) == (CHOOSE i \in 1..10 : DigitChars[i] = c) - 1

RECURSIVE ToNum(_)
ToNum(p) ==
  IF p = <<>> THEN 0
  ELSE ToNum(SubSeq(p, 1, Len(p) - 1)) * 10 + DigitVal(p[Len(p)])

IsDigits(p) == Len(p) >= 1 /\ \A i \in 1..Len(p) : IsDigit(p[i])

\* str.upper() / SQL UPPER on the letters that occur in the data
LowerChars == <<"a", "c", "e", "i", "m", "n", "o", "r", "s">>
UpperChars == <<"A", "C", "E", "I", "M", "N", "O", "R", "S">>

UpperChar(c) ==
  IF \E i \in 1..Len(LowerChars) : LowerChars[i] = c
  THEN UpperChars[CHOOSE i \in 1..Len(LowerChars) : LowerChars[i] = c]
  ELSE c

Upper(s) == [i \in 1..Len(s) |-> UpperChar(s[i])]

\* s LIKE '%sub%', str.contains(sub)
Contains(s, sub) ==
  \E i \in 1..(Len(s) - Len(sub) + 1) : SubSeq(s, i, i + Len(sub) - 1) = sub

----------------------------------------------------------------------------
(* to_sql_list and the IN (...) list the SQL parser reads back             *)

RECURSIVE Join(_, _)
Join(lista, sep) ==
  IF lista = <<>> THEN <<>>
  ELSE IF Len(lista) = 1 THEN lista[1]
  ELSE lista[1] \o sep \o Join(Tail(lista), sep)

to_sql_list(lista) == <<"'">> \o Join(lista, <<"'", ",", "'">>) \o <<"'">>

\* Reads the string literals of t from position i on; in a literal '' is an
\* escaped quote.  The set of the literals' values, or ok = FALSE (a parser
\* error) when t is not a comma-separated list of string literals.
ParserError == [ok |-> FALSE, vals |-> {}]

RECURSIVE ParseLiterals(_, _, _, _, _)
ParseLiterals(t, i, inLit, cur, acc) ==
  IF ~inLit
  THEN IF i > Len(t) \/ t[i] # "'" THEN ParserError
       ELSE ParseLiterals(t, i + 1, TRUE, <<>>, acc)
  ELSE IF i > Len(t) THEN ParserError
  ELSE IF t[i] # "'" THEN ParseLiterals(t, i + 1, TRUE, Append(cur, t[i]), acc)
  ELSE IF i + 1 <= Len(t) /\ t[i + 1] = "'"
       THEN ParseLiterals(t, i + 2, TRUE, Append(cur, "'"), acc)
  ELSE IF i = Len(t) THEN [ok |-> TRUE, vals |-> acc \cup {cur}]
  ELSE IF t[i + 1] = "," THEN ParseLiterals(t, i + 2, FALSE, <<>>, acc \cup {cur})
  ELSE ParserError

SqlInList(text) == ParseLiterals(text, 1, FALSE, <<>>, {})

\* The list a multiselect returns for the chosen set of options.
RECURSIVE SetToList(_)
SetToList(S) ==
  IF S = {} THEN <<>>
  ELSE LET x == CHOOSE y \in S : TRUE IN <<x>> \o SetToList(S \ {x})

----------------------------------------------------------------------------
(* strptime(fecha_apertura, '%d/%m/%Y') and the calendar                   *)

RECURSIVE SplitOn(_, _)
SplitOn(t, c) ==
  IF \A i \in 1..Len(t) : t[i] # c THEN <<t>>
  ELSE LET k == CHOOSE i \in 1..Len(t) :
                  t[i] = c /\ \A j \in 1..(i - 1) : t[j] # c
       IN <<SubSeq(t, 1, k - 1)>> \o SplitOn(SubSeq(t, k + 1, Len(t)), c)

IsLeap(y) == (y % 4 = 0 /\ y % 100 # 0) \/ y % 400 = 0

DaysInMonth(y, m) ==
  IF m = 2 THEN (IF IsLeap(y) THEN 29 ELSE 28)
  ELSE IF m \in {4, 6, 9, 11} THEN 30 ELSE 31

ParseFailed == [ok |-> FALSE, y |-> 0, m |-> 0, d |-> 0]

\* The date of a text in day/month/year order, or ParseFailed: strptime
\* throws on a text that does not match the format or names no calendar day.
strptime(text) ==
  LET parts == SplitOn(text, "/") IN
  IF Len(parts) # 3 THEN ParseFailed
  ELSE IF ~(IsDigits(parts[1]) /\ IsDigits(parts[2]) /\ IsDigits(parts[3]))
  THEN ParseFailed
  ELSE IF Len(parts[1]) > 2 \/ Len(parts[2]) > 2 \/ Len(parts[3]) > 4
  THEN ParseFailed
  ELSE LET d == ToNum(parts[1])
           m == ToNum(parts[2])
           y == ToNum(parts[3])
       IN IF m \in 1..12 /\ y >= 1 /\ d >= 1 /\ d <= DaysInMonth(y, m)
          THEN [ok |-> TRUE, y |-> y, m |-> m, d |-> d]
          ELSE ParseFailed

\* fecha_apertura is NULL: strptime(NULL, ...) is NULL, nothing is thrown.
DateThrows(row) ==
  row.fecha_apertura # NULL /\ ~strptime(row.fecha_apertura[1]).ok

\* strftime(fecha_dt, '%Y%m') as a number (see the header)
cosecha_of(dt) == dt.y * 100 + dt.m

----------------------------------------------------------------------------
(* Data frames: sets of rows; a grouped frame is a set of aggregate rows   *)

\* The columns that still hold NULL / NaN in a pandas frame.
NullableCols == {"origen2", "monto_otorgado", "fpd2", "rango"}

IsNa(r, c) == c \in NullableCols /\ r[c] = NULL

RECURSIVE SumCol(_, _)
SumCol(S, c) ==
  IF S = {} THEN 0
  ELSE LET r == CHOOSE x \in S : TRUE IN r[c] + SumCol(S \ {r}, c)

\* x * 100 / y on a pandas column or in SQL: no exception on y = 0 (NaN / NULL)
Div(a, b) ==
  IF b = 0 THEN [nan |-> TRUE, num |-> 0, den |-> 1]
  ELSE [nan |-> FALSE, num |-> a, den |-> b]

KeyOf(r, cols) == [i \in 1..Len(cols) |-> r[cols[i]]]

\* One aggregate row: 'count' of id_credito, 'sum' of fpd_num and np_num,
\* and the rate columns added right after the groupby.
AggRow(k, g) ==
  LET n == Cardinality({r.id_credito : r \in g})
      f == SumCol(g, "fpd_num")
      p == SumCol(g, "np_num")
  IN [key |-> k, id_credito |-> n, fpd_num |-> f, np_num |-> p,
      pct_FPD |-> Div(f * 100, n), np_rate |-> Div(p * 100, n)]

\* GroupAgg as groupby does it on categorical keys without observed = True:
\* one row per combination of the key columns' values, present or not.
GroupAggZeroFill(df, cols) ==
  LET kept == {r \in df : \A i \in 1..Len(cols) : ~IsNa(r, cols[i])}
      keys == IF Len(cols) = 1 THEN {<<r[cols[1]]>> : r \in kept}
              ELSE {<<a[cols[1]], b[cols[2]]>> : a \in kept, b \in kept}
  IN {AggRow(k, {r \in kept : KeyOf(r, cols) = k}) : k \in keys}

\* df.groupby(cols).agg(...): one row per key present; pandas drops the rows
\* whose key holds a missing value (dropna = True is the default).
GroupAgg(df, cols) ==
  LET kept == {r \in df : \A i \in 1..Len(cols) : ~IsNa(r, cols[i])}
  IN {AggRow(k, {r \in kept : KeyOf(r, cols) = k}) :
        k \in {KeyOf(r, cols) : r \in kept}}

RECURSIVE SortAsc(_)
SortAsc(S) ==
  IF S = {} THEN <<>>
  ELSE LET lo == CHOOSE x \in S : \A y \in S : x <= y
       IN <<lo>> \o SortAsc(S \ {lo})

\* sorted(df['cosecha_id'].unique())
Cosechas(df) == SortAsc({r.cosecha_id : r \in df})

\* seq[-n:]
LastN(seq, n) ==
  IF Len(seq) <= n THEN seq ELSE SubSeq(seq, Len(seq) - n + 1, Len(seq))

\* seq[:n]
FirstN(seq, n) == IF Len(seq) <= n THEN seq ELSE SubSeq(seq, 1, n)

Reverse(seq) == [i \in 1..Len(seq) |-> seq[Len(seq) + 1 - i]]

Range(seq) == {seq[i] : i \in 1..Len(seq)}

MaxOf(S) == CHOOSE x \in S : \A y \in S : y <= x

----------------------------------------------------------------------------
(* The queries                                                             *)

\* The parquet file as a table: record i of the file has id_credito i.
Table(file) ==
  {[id_credito |-> i, fecha_apertura |-> file[i].fecha_apertura,
    fpd2 |-> file[i].fpd2, NP |-> file[i].NP, origen2 |-> file[i].origen2,
    monto_otorgado |-> file[i].monto_otorgado,
    tipo_cliente |-> file[i].tipo_cliente, sucursal |-> file[i].sucursal,
    unidad_regional |-> file[i].unidad_regional,
    producto_agrupado |-> file[i].producto_agrupado] : i \in 1..Len(file)}

get_filter_universes(file) ==
  {[unidad_regional |-> Coalesce(r.unidad_regional, NA),
    sucursal |-> Coalesce(r.sucursal, NA),
    producto_agrupado |-> Coalesce(r.producto_agrupado, NA),
    tipo_cliente |-> Coalesce(r.tipo_cliente, NA)] : r \in Table(file)}

\* CASE WHEN col = marker THEN 1 ELSE 0 END (a NULL col compares as unknown)
Flag(col, marker) == IF col # NULL /\ col[1] = marker THEN 1 ELSE 0

\* A row of the CTE base with the columns of the final SELECT.
MainRow(r) ==
  LET dt == strptime(r.fecha_apertura[1])
  IN [id_credito |-> r.id_credito,
      fecha_dt |-> [y |-> dt.y, m |-> dt.m, d |-> dt.d],
      fpd_num |-> Flag(r.fpd2, FPD), np_num |-> Flag(r.NP, NP),
      origen2 |-> r.origen2, monto_otorgado |-> r.monto_otorgado,
      fpd2 |-> r.fpd2,
      tipo_cliente |-> Coalesce(r.tipo_cliente, NA),
      sucursal |-> Coalesce(r.sucursal, NA),
      unidad_regional |-> Coalesce(r.unidad_regional, NA),
      producto_agrupado |-> Coalesce(r.producto_agrupado, NA),
      cosecha_id |-> cosecha_of(dt), anio |-> dt.y, mes |-> dt.m]

\* "AND col IN (" + to_sql_list(lista) + ")" if lista else "": the clause is
\* absent for an empty selection.
InClause(sel) ==
  IF sel = {} THEN [ok |-> TRUE, vals |-> {}]
  ELSE SqlInList(to_sql_list(SetToList(sel)))

DimPasses(sel, v) == sel = {} \/ v \in InClause(sel).vals

Filtrado(r, regionales, sucursales, productos, tipos) ==
  /\ DimPasses(regionales, Coalesce(r.unidad_regional, NA))
  /\ DimPasses(sucursales, Coalesce(r.sucursal, NA))
  /\ DimPasses(productos, Coalesce(r.producto_agrupado, NA))
  /\ DimPasses(tipos, Coalesce(r.tipo_cliente, NA))

Returned(df) == [exc |-> "", df |-> df]
Raised(e) == [exc |-> e, df |-> {}]

\* The outcomes of get_main_data: the frame it returns or the exception it
\* raises.  A query whose IN list does not parse raises.  strptime throws on
\* a text it cannot parse (TRY_CAST guards only the cast of its result): a
\* query that evaluates it on such a row raises; whether the engine applies
\* the dimension filters before it evaluates strptime is the optimizer's
\* choice, so a bad row that the filters reject may or may not raise.
get_main_data(file, regionales, sucursales, productos, tipos) ==
  IF \E sel \in {regionales, sucursales, productos, tipos} : ~InClause(sel).ok
  THEN {Raised("ParserException")}
  ELSE
    LET pass == {r \in Table(file) :
                   Filtrado(r, regionales, sucursales, productos, tipos)}
        ok == Returned({MainRow(r) : r \in {x \in pass : x.fecha_apertura # NULL}})
    IN IF \E r \in pass : DateThrows(r) THEN {Raised("InvalidInputException")}
       ELSE IF \E r \in Table(file) : DateThrows(r)
       THEN {Raised("InvalidInputException"), ok}
       ELSE {ok}

\* WHERE UPPER(producto_agrupado) NOT LIKE '%NOMINA%'
\*   AND sucursal != '999.EMPRESA NOMINA COLABORADORES'
\* (a NULL operand makes the condition unknown and the row is not selected)
ExecWhere(r) ==
  /\ r.producto_agrupado # NULL
  /\ ~Contains(Upper(r.producto_agrupado[1]), NOMINA)
  /\ r.sucursal # NULL
  /\ r.sucursal[1] # SucNomina

ExecRow(r, field) ==
  LET dt == strptime(r.fecha_apertura[1])
  IN [id_credito |-> r.id_credito, fpd_num |-> Flag(r.fpd2, FPD), np_num |-> 0,
      cosecha_id |-> cosecha_of(dt), dimension |-> Coalesce(r[field], NA)]

\* The outcomes of get_executive_data(field): the grouped rows (cosecha_id,
\* dimension, total_vol, fpd_si, fpd_rate) or the exception.
get_executive_data(file, field) ==
  LET pass == {r \in Table(file) : ExecWhere(r)}
      rows == {ExecRow(r, field) : r \in {x \in pass : x.fecha_apertura # NULL}}
      ok == Returned(GroupAgg(rows, <<"cosecha_id", "dimension">>))
  IN IF \E r \in pass : DateThrows(r) THEN {Raised("InvalidInputException")}
     ELSE IF \E r \in Table(file) : DateThrows(r)
     THEN {Raised("InvalidInputException"), ok}
     ELSE {ok}

\* pd.cut(monto, bins = [0, 3000, 5000, 8000, 12000, 20000, inf],
\*        labels = ..., include_lowest = True): right-closed intervals, the
\* first one closed on the left too; NaN for a missing or negative amount.
bins == <<0, 3000, 5000, 8000, 12000, 20000>>
labels == <<"$0-$3k", "$3k-$5k", "$5k-$8k", "$8k-$12k", "$12k-$20k", ">$20k">>

\* InBin with every interval closed on both sides
InBinCerrado(v, i) == bins[i] <= v /\ (i = Len(bins) \/ v <= bins[i + 1])

InBin(v, i) ==
  /\ IF i = 1 THEN bins[1] <= v ELSE bins[i] < v
  /\ i = Len(bins) \/ v <= bins[i + 1]

cut(monto) ==
  IF monto = NULL THEN NULL
  ELSE IF \E i \in 1..Len(bins) : InBin(monto[1], i)
  THEN Some(labels[CHOOSE i \in 1..Len(bins) : InBin(monto[1], i)])
  ELSE NULL

----------------------------------------------------------------------------
(* The script's state                                                      *)

VARIABLES
  data,            \* the records of fpd_gemini.parquet, in file order
  pc,              \* the step of the run
  err,             \* the uncaught exception that ended the run, or ""
  bound,           \* the names the run has assigned so far
  sel_reg, sel_suc, sel_prod, sel_tip,
  df_main, max_c_real, df_fpd, lista_cosechas, ult_c_id, ant_c_id,
  df_t, ult, ant, df_o, df_y, df_tc, df_r_c, df_r_p,
  exec,            \* per render_exec_block call: df_e, u_e, a_e
  df_h, df_comp, df_s,
  lista_export, cosecha_export, df_exp

sidebar == <<sel_reg, sel_suc, sel_prod, sel_tip>>
globals == <<df_main, max_c_real, df_fpd, lista_cosechas, ult_c_id, ant_c_id>>
tab1 == <<df_t, ult, ant, df_o, df_y, df_tc, df_r_c, df_r_p>>
tab3 == <<df_h, df_comp, df_s>>
tab4 == <<lista_export, cosecha_export, df_exp>>
vars == <<data, pc, err, bound, sidebar, globals, tab1, exec, tab3, tab4>>

ExecFields == <<"unidad_regional", "producto_agrupado", "sucursal">>

NoRow == AggRow(<<0>>, {})
NoBlock == [called |-> FALSE, df_e |-> {}, lista_c_e |-> <<>>, u_e |-> 0, a_e |-> 0]

\* A run starts with an empty namespace.
Fresh ==
  /\ pc = "sidebar" /\ err = "" /\ bound = {}
  /\ sel_reg = {} /\ sel_suc = {} /\ sel_prod = {} /\ sel_tip = {}
  /\ df_main = {} /\ max_c_real = 0 /\ df_fpd = {} /\ lista_cosechas = <<>>
  /\ ult_c_id = 0 /\ ant_c_id = 0
  /\ df_t = <<>> /\ ult = NoRow /\ ant = NoRow /\ df_o = {} /\ df_y = {}
  /\ df_tc = {} /\ df_r_c = {} /\ df_r_p = {}
  /\ exec = [i \in 1..Len(ExecFields) |-> NoBlock]
  /\ df_h = {} /\ df_comp = {} /\ df_s = {}
  /\ lista_export = <<>> /\ cosecha_export = 0 /\ df_exp = {}

----------------------------------------------------------------------------
(* The files the model is run on                                           *)

\* The number of records of the file.
MaxRecords == 3

Digits2(n) == <<DigitChars[(n \div 10) + 1], DigitChars[(n % 10) + 1]>>
DateText(d, m, y) ==
  Digits2(d) \o <<"/">> \o Digits2(m) \o <<"/">> \o Digits2(y \div 100)
    \o Digits2(y % 100)

R1 == <<"R", "1">>
R2 == <<"R", "2">>
LX == <<"L", "'", "X">>
S1 == <<"S", "1">>
S2 == <<"S", "2">>
P1 == <<"P", "1">>
PNom == <<"N", "o", "m", "i", "n", "a", " ", "X">>
Nuevo == <<"N", "u", "e", "v", "o">>
Web == <<"W", "e", "b">>
Suc == <<"S", "u", "c">>
NoFPD == <<"N", "O">>

BaseRow ==
  [fecha_apertura |-> Some(DateText(10, 3, 2024)), fpd2 |-> Some(FPD),
   NP |-> NULL, origen2 |-> Some(Web), monto_otorgado |-> Some(4000),
   tipo_cliente |-> Some(Nuevo), sucursal |-> Some(S1),
   unidad_regional |-> Some(R1), producto_agrupado |-> Some(P1)]

Paid == [BaseRow EXCEPT !.fpd2 = Some(NoFPD), !.NP = Some(NP)]

\* Records that differ in date, outcome, origin, amount and product.
Rows ==
  << BaseRow,
     [BaseRow EXCEPT !.fecha_apertura = Some(DateText(20, 4, 2024))],
     [BaseRow EXCEPT !.fecha_apertura = Some(DateText(5, 2, 2024))],
     [BaseRow EXCEPT !.fecha_apertura = NULL],
     [BaseRow EXCEPT !.fecha_apertura = Some(DateText(32, 1, 2024))],
     [BaseRow EXCEPT !.fecha_apertura = Some(<<>>)],
     Paid,
     [Paid EXCEPT !.fecha_apertura = Some(DateText(5, 2, 2024))],
     [BaseRow EXCEPT !.origen2 = NULL],
     [Paid EXCEPT !.origen2 = Some(Suc)],
     [BaseRow EXCEPT !.monto_otorgado = NULL],
     [BaseRow EXCEPT !.monto_otorgado = Some(3000)],
     [Paid EXCEPT !.monto_otorgado = Some(25000)],
     [BaseRow EXCEPT !.monto_otorgado = Some(-1)],
     [BaseRow EXCEPT !.producto_agrupado = Some(PNom)] >>

\* Records that differ in the four filter dimensions.
FilterRows ==
  << BaseRow,
     [BaseRow EXCEPT !.fecha_apertura = Some(DateText(20, 4, 2024))],
     [Paid EXCEPT !.unidad_regional = Some(R2), !.sucursal = Some(S2)],
     [BaseRow EXCEPT !.unidad_regional = NULL],
     [BaseRow EXCEPT !.unidad_regional = Some(LX)],
     [BaseRow EXCEPT !.sucursal = NULL],
     [BaseRow EXCEPT !.sucursal = Some(SucNomina)],
     [BaseRow EXCEPT !.producto_agrupado = NULL],
     [Paid EXCEPT !.tipo_cliente = Some(Formers)],
     [BaseRow EXCEPT !.tipo_cliente = NULL],
     [BaseRow EXCEPT !.fecha_apertura = Some(DateText(32, 1, 2024)),
                     !.unidad_regional = Some(R2)] >>

\* The files of at most MaxRecords records drawn from U, in U's order (the
\* order of the records in the file decides nothing in the script).
Files(U) ==
  {[i \in 1..Len(ix) |-> U[ix[i]]] :
     ix \in UNION {{f \in [1..n -> 1..Len(U)] :
                      \A i \in 1..(n - 1) : f[i] <= f[i + 1]} :
                   n \in 0..MaxRecords}}

----------------------------------------------------------------------------
(* The steps of a run                                                      *)

Init == data \in Files(Rows) /\ Fresh

InitFilter == data \in Files(FilterRows) /\ Fresh

\* An uncaught exception: Streamlit shows it and the run ends.
Abort(e) == pc' = "aborted" /\ err' = e

\* Lines 86-92: the options of each multiselect and what the user picks.
Sidebar ==
  /\ pc = "sidebar"
  /\ LET opt == get_filter_universes(data) IN
     \E reg \in SUBSET {o.unidad_regional : o \in opt} :
       LET suc_disp ==
             IF reg # {}
             THEN {o.sucursal : o \in {x \in opt : x.unidad_regional \in reg}}
             ELSE {o.sucursal : o \in opt}
       IN \E suc \in SUBSET suc_disp,
             prod \in SUBSET {o.producto_agrupado : o \in opt},
             tip \in SUBSET {o.tipo_cliente : o \in opt} :
            /\ sel_reg' = reg /\ sel_suc' = suc
            /\ sel_prod' = prod /\ sel_tip' = tip
  /\ pc' = "get_main_data"
  /\ UNCHANGED <<data, err, bound, globals, tab1, exec, tab3, tab4>>

\* Line 94
GetMainData ==
  /\ pc = "get_main_data"
  /\ \E out \in get_main_data(data, sel_reg, sel_suc, sel_prod, sel_tip) :
       IF out.exc # ""
       THEN Abort(out.exc) /\ UNCHANGED <<df_main, bound>>
       ELSE /\ df_main' = out.df
            /\ bound' = bound \cup {"df_main"}
            /\ pc' = "global"
            /\ err' = err
  /\ UNCHANGED <<data, sidebar, max_c_real, df_fpd, lista_cosechas, ult_c_id,
                 ant_c_id, tab1, exec, tab3, tab4>>

\* Anterior with lista[-1] where the script has lista[-2]
AnteriorIsUltima(lista) == lista[Len(lista)]

\* lista[-1] and lista[-2] if len(lista) > 1 else lista[-1]
Ultima(lista) == lista[Len(lista)]
Anterior(lista) ==
  IF Len(lista) > 1 THEN lista[Len(lista) - 1] ELSE lista[Len(lista)]

\* SinMaximo with <= where the script has <
ConMaximo(df) == {r \in df : r.cosecha_id <= MaxOf({x.cosecha_id : x \in df})}

\* Lines 97-99
SinMaximo(df) == {r \in df : r.cosecha_id < MaxOf({x.cosecha_id : x \in df})}

\* Lines 96-106: drop the most recent cosecha; nothing is assigned when
\* df_main is empty, and no ult_c_id / ant_c_id when nothing is left.
GlobalFilter ==
  /\ pc = "global"
  /\ IF df_main # {}
     THEN LET fpd == SinMaximo(df_main)
              lista == Cosechas(fpd)
          IN /\ max_c_real' = MaxOf({r.cosecha_id : r \in df_main})
             /\ df_fpd' = fpd
             /\ lista_cosechas' = lista
             /\ IF lista # <<>>
                THEN /\ ult_c_id' = Ultima(lista)
                     /\ ant_c_id' = Anterior(lista)
                     /\ bound' = bound \cup {"max_c_real", "df_fpd",
                                 "lista_cosechas", "ult_c_id", "ant_c_id"}
                ELSE /\ UNCHANGED <<ult_c_id, ant_c_id>>
                     /\ bound' = bound \cup {"max_c_real", "df_fpd",
                                             "lista_cosechas"}
     ELSE UNCHANGED <<max_c_real, df_fpd, lista_cosechas, ult_c_id, ant_c_id,
                      bound>>
  /\ pc' = "tab1"
  /\ UNCHANGED <<data, err, sidebar, df_main, tab1, exec, tab3, tab4>>

\* reset_index() of a frame grouped by cosecha_id: rows in key order
RECURSIVE ByCosecha(_)
ByCosecha(S) ==
  IF S = {} THEN <<>>
  ELSE LET lo == CHOOSE x \in S : \A y \in S : x.key[1] <= y.key[1]
       IN <<lo>> \o ByCosecha(S \ {lo})

\* The number of cosechas of the charts that show a tail of the history.
Ultimas24 == 24
Ultimas6 == 6
UltimasExport == 2

\* Lines 112-173
Tab1 ==
  /\ pc = "tab1"
  /\ IF "df_fpd" \notin bound
     THEN Abort("NameError") /\ UNCHANGED tab1
     ELSE IF df_fpd = {}
     THEN pc' = "tab2" /\ err' = err /\ UNCHANGED tab1
     ELSE
       LET t == ByCosecha(GroupAgg(df_fpd, <<"cosecha_id">>))
           u24 == LastN(Cosechas(df_fpd), Ultimas24)
       IN IF t = <<>>
          THEN Abort("IndexError") /\ UNCHANGED tab1
          ELSE IF "ult_c_id" \notin bound \/ "ant_c_id" \notin bound
          THEN Abort("NameError") /\ UNCHANGED tab1
          ELSE
            /\ df_t' = t
            /\ ult' = Ultima(t)
            /\ ant' = Anterior(t)
            /\ df_o' = GroupAgg(df_fpd, <<"cosecha_id", "origen2">>)
            /\ df_y' = GroupAgg(df_fpd, <<"anio", "mes">>)
            /\ df_tc' = GroupAgg({r \in df_fpd : r.tipo_cliente # Formers
                                    /\ r.cosecha_id \in Range(u24)},
                                 <<"cosecha_id", "tipo_cliente">>)
            /\ df_r_c' = GroupAgg({r \in df_fpd : r.cosecha_id = ult_c_id},
                                  <<"sucursal">>)
            /\ df_r_p' = GroupAgg({r \in df_fpd : r.cosecha_id = ant_c_id},
                                  <<"sucursal">>)
            /\ pc' = "tab2" /\ err' = err
  /\ UNCHANGED <<data, bound, sidebar, globals, exec, tab3, tab4>>

\* Lines 181-192 of render_exec_block, on the frame the query returned:
\* the block is shown only when df_e is not empty.
ExecBlock(raw, maxc) ==
  LET e == {x \in raw : x.key[1] < maxc}
      lista == SortAsc({x.key[1] : x \in e})
  IN IF e = {}
     THEN [called |-> TRUE, df_e |-> e, lista_c_e |-> <<>>, u_e |-> 0, a_e |-> 0]
     ELSE [called |-> TRUE, df_e |-> e, lista_c_e |-> lista,
           u_e |-> Ultima(lista), a_e |-> Anterior(lista)]

\* df_u.iloc[0] and df_a.iloc[0] need a row of df_e for u_e and for a_e.
ExecIndexError(b) ==
  /\ b.df_e # {}
  /\ \/ {x \in b.df_e : x.key[1] = b.u_e} = {}
     \/ {x \in b.df_e : x.key[1] = b.a_e} = {}

\* Lines 176-198: the three executive blocks, in order; the first query that
\* raises ends the run.
Tab2 ==
  /\ pc = "tab2"
  /\ IF "df_fpd" \notin bound
     THEN Abort("NameError") /\ UNCHANGED exec
     ELSE IF df_fpd = {}
     THEN pc' = "tab3" /\ err' = err /\ UNCHANGED exec
     ELSE
       \E o1 \in get_executive_data(data, ExecFields[1]),
          o2 \in get_executive_data(data, ExecFields[2]),
          o3 \in get_executive_data(data, ExecFields[3]) :
         LET outs == <<o1, o2, o3>>
             blocks == [i \in 1..Len(ExecFields) |->
                          ExecBlock(outs[i].df, max_c_real)]
             bad == {i \in 1..Len(ExecFields) :
                       outs[i].exc # "" \/ ExecIndexError(blocks[i])}
             stop == IF bad = {} THEN Len(ExecFields) + 1
                     ELSE CHOOSE i \in bad : \A j \in bad : i <= j
         IN /\ exec' = [i \in 1..Len(ExecFields) |->
                          IF i < stop THEN blocks[i] ELSE NoBlock]
            /\ IF bad = {}
               THEN pc' = "tab3" /\ err' = err
               ELSE Abort(IF outs[stop].exc # "" THEN outs[stop].exc
                          ELSE "IndexError")
  /\ UNCHANGED <<data, bound, sidebar, globals, tab1, tab3, tab4>>

\* Line 220-221: the rows of the two compared cosechas with their rango
Comp(df, ultc, antc) ==
  {[id_credito |-> r.id_credito, cosecha_id |-> r.cosecha_id,
    fpd_num |-> r.fpd_num, np_num |-> r.np_num,
    monto_otorgado |-> r.monto_otorgado, rango |-> cut(r.monto_otorgado)] :
     r \in {x \in df : x.cosecha_id \in {ultc, antc}}}

\* Lines 201-232
Tab3 ==
  /\ pc = "tab3"
  /\ IF "df_fpd" \notin bound
     THEN Abort("NameError") /\ UNCHANGED tab3
     ELSE IF df_fpd = {}
     THEN pc' = "tab4" /\ err' = err /\ UNCHANGED tab3
     ELSE IF "lista_cosechas" \notin bound
     THEN Abort("NameError") /\ UNCHANGED tab3
     ELSE
       LET u6 == LastN(lista_cosechas, Ultimas6)
           h == GroupAgg({r \in df_fpd :
                            /\ r.cosecha_id \in Range(u6)
                            /\ ~Contains(Upper(r.producto_agrupado), NOMINA)},
                         <<"unidad_regional", "cosecha_id">>)
       IN IF u6 = <<>>
          THEN Abort("IndexError") /\ UNCHANGED tab3
          ELSE IF \A x \in h : x.key[2] # u6[Len(u6)]
          \* pivot_h has no column u6[-1] to sort by
          THEN Abort("KeyError") /\ df_h' = h /\ UNCHANGED <<df_comp, df_s>>
          ELSE IF "ult_c_id" \notin bound \/ "ant_c_id" \notin bound
          THEN Abort("NameError") /\ df_h' = h /\ UNCHANGED <<df_comp, df_s>>
          ELSE /\ df_h' = h
               /\ df_comp' = Comp(df_fpd, ult_c_id, ant_c_id)
               /\ df_s' = GroupAgg(Comp(df_fpd, ult_c_id, ant_c_id),
                                   <<"cosecha_id", "rango">>)
               /\ pc' = "tab4" /\ err' = err
  /\ UNCHANGED <<data, bound, sidebar, globals, tab1, exec, tab4>>

\* Line 240
ListaExport(df) == FirstN(Reverse(Cosechas(df)), UltimasExport)

\* Exportar without the fpd2 == 'FPD' condition
ExportarTodos(df, cosecha) ==
  {[id_credito |-> r.id_credito, producto_agrupado |-> r.producto_agrupado,
    origen2 |-> r.origen2, cosecha |-> r.cosecha_id,
    monto_otorgado |-> r.monto_otorgado, sucursal |-> r.sucursal] :
     r \in {x \in df : x.cosecha_id = cosecha}}

\* Lines 252-254 (id_segmento, id_producto and cuota are copied through and
\* are not part of the model's records)
Exportar(df, cosecha) ==
  {[id_credito |-> r.id_credito, producto_agrupado |-> r.producto_agrupado,
    origen2 |-> r.origen2, cosecha |-> r.cosecha_id,
    monto_otorgado |-> r.monto_otorgado, sucursal |-> r.sucursal] :
     r \in {x \in df : x.cosecha_id = cosecha /\ x.fpd2 # NULL
                         /\ x.fpd2[1] = FPD}}

\* Lines 235-263: the selectbox offers lista_export and the user picks one.
Tab4 ==
  /\ pc = "tab4"
  /\ IF "df_main" \notin bound
     THEN Abort("NameError") /\ UNCHANGED tab4
     ELSE IF df_main = {}
     THEN pc' = "done" /\ err' = err /\ UNCHANGED tab4
     ELSE \E c \in Range(ListaExport(df_main)) :
            /\ lista_export' = ListaExport(df_main)
            /\ cosecha_export' = c
            /\ df_exp' = Exportar(df_main, c)
            /\ pc' = "done" /\ err' = err
  /\ UNCHANGED <<data, bound, sidebar, globals, tab1, exec, tab3>>

\* A widget interaction reruns the script from the top.
Rerun ==
  /\ pc \in {"done", "aborted"}
  /\ pc' = "sidebar" /\ err' = "" /\ bound' = {}
  /\ sel_reg' = {} /\ sel_suc' = {} /\ sel_prod' = {} /\ sel_tip' = {}
  /\ df_main' = {} /\ max_c_real' = 0 /\ df_fpd' = {}
  /\ lista_cosechas' = <<>> /\ ult_c_id' = 0 /\ ant_c_id' = 0
  /\ df_t' = <<>> /\ ult' = NoRow /\ ant' = NoRow /\ df_o' = {} /\ df_y' = {}
  /\ df_tc' = {} /\ df_r_c' = {} /\ df_r_p' = {}
  /\ exec' = [i \in 1..Len(ExecFields) |-> NoBlock]
  /\ df_h' = {} /\ df_comp' = {} /\ df_s' = {}
  /\ lista_export' = <<>> /\ cosecha_export' = 0 /\ df_exp' = {}
  /\ UNCHANGED data

Next ==
  \/ Sidebar \/ GetMainData \/ GlobalFilter
  \/ Tab1 \/ Tab2 \/ Tab3 \/ Tab4 \/ Rerun

Spec == Init /\ [][Next]_vars

SpecFilter == InitFilter /\ [][Next]_vars

----------------------------------------------------------------------------
(* Vocabulary of the properties                                            *)

Ids(df) == {r.id_credito : r \in df}

\* get_main_data has returned (the run got past line 94).
Loaded == "df_main" \in bound

\* The global filter has assigned df_fpd.
Filtered == "df_fpd" \in bound

\* A record of the file whose fecha_apertura parses to a date.
Parseable(r) == r.fecha_apertura # NULL /\ strptime(r.fecha_apertura[1]).ok

\* A record of the file whose fecha_apertura is empty, malformed or impossible.
BadDate(r) == r.fecha_apertura # NULL /\ ~strptime(r.fecha_apertura[1]).ok

\* The value of a dimension after null normalization is in the selection,
\* or the selection is empty.
Allows(sel, v) == sel = {} \/ Coalesce(v, NA) \in sel

RECURSIVE SumCounts(_)
SumCounts(S) ==
  IF S = {} THEN 0
  ELSE LET g == CHOOSE x \in S : TRUE IN g.id_credito + SumCounts(S \ {g})

\* Tab 1, tab 3 have shown their aggregates in this run.
Tab1Shown == pc \in {"tab2", "tab3", "tab4", "done"} /\ Filtered /\ df_fpd # {}
Tab3Shown == pc \in {"tab4", "done"} /\ Filtered /\ df_fpd # {}

\* The last and the one before the last of a set of cosechas, in
\* chronological order; the last again when there is only one.
Current(C) == CHOOSE c \in C : \A x \in C : x <= c
Prior(C) ==
  IF Cardinality(C) = 1 THEN Current(C) ELSE Current(C \ {Current(C)})

----------------------------------------------------------------------------
(* C1: the dimensional filter of get_main_data                             *)

\* The records the claim says are returned: date-parseable, and allowed by
\* every dimension whose selection is not empty.
C1_Expected ==
  {r \in Table(data) :
     /\ Parseable(r)
     /\ Allows(sel_reg, r.unidad_regional)
     /\ Allows(sel_suc, r.sucursal)
     /\ Allows(sel_prod, r.producto_agrupado)
     /\ Allows(sel_tip, r.tipo_cliente)}

\* C1: once get_main_data has been called, df_main holds exactly the
\* date-parseable records whose value is in the selection for every dimension
\* with a non-empty selection.  Stated here for the files in which every
\* date text parses, so that C10's exception is not what refutes it.
C1_FilterConjunction ==
  (pc \notin {"sidebar", "get_main_data"} /\ \A r \in Table(data) : ~BadDate(r))
    => (Loaded /\ Ids(df_main) = Ids(C1_Expected))

\* The same statement for selections in which no value holds an apostrophe:
\* the part of C1 the code does satisfy.
C1_HoldsWithoutApostrophe ==
  (/\ pc \notin {"sidebar", "get_main_data"}
   /\ \A r \in Table(data) : ~BadDate(r)
   /\ \A v \in sel_reg \cup sel_suc \cup sel_prod \cup sel_tip :
        \A i \in 1..Len(v) : v[i] # "'")
    => (Loaded /\ Ids(df_main) = Ids(C1_Expected))

----------------------------------------------------------------------------
(* C10: records whose date does not parse                                  *)

\* C10: a record whose fecha_apertura is empty, malformed or impossible does
\* not make the query raise, is absent from df_main (and so from every
\* cosecha-grouped aggregate), and the other records are still returned.
C10_BadDateIsSkipped ==
  pc \notin {"sidebar", "get_main_data"}
    => /\ err # "InvalidInputException"
       /\ Loaded
       /\ Ids(df_main) = Ids(C1_Expected)

----------------------------------------------------------------------------
(* C3: the empty result                                                    *)

\* C3: when get_main_data returns an empty table, the pass over the four
\* tabs raises nothing and reads no name that was never assigned.
C3_EmptyResultCompletes ==
  (Loaded /\ df_main = {}) => (pc # "aborted" /\ err = "")

----------------------------------------------------------------------------
(* C2: which records take part in the aggregates                           *)

\* The wall-clock time of the query in the spec's example, 2024-05-15.
AsOf == [y |-> 2024, m |-> 5, d |-> 15]

\* dt minus k calendar months (the day is cut to the length of the month)
MinusMonths(dt, k) ==
  LET t == dt.y * 12 + (dt.m - 1) - k
      yy == t \div 12
      mm == (t % 12) + 1
  IN [y |-> yy, m |-> mm,
      d |-> IF dt.d <= DaysInMonth(yy, mm) THEN dt.d ELSE DaysInMonth(yy, mm)]

DateLeq(a, b) ==
  \/ a.y < b.y
  \/ a.y = b.y /\ a.m < b.m
  \/ a.y = b.y /\ a.m = b.m /\ a.d <= b.d

\* origination_date <= as_of - 2 calendar months
Mature(r) == DateLeq(r.fecha_dt, MinusMonths(AsOf, 2))

\* C2 as claimed: a record of df_main takes part in the aggregates iff it is
\* mature on the day of the query.
C2_MatureIffAggregated ==
  (pc \notin {"sidebar", "get_main_data", "global"} /\ Loaded /\ df_main # {})
    => (Filtered /\ df_fpd = {r \in df_main : Mature(r)})

\* C2 as amended: a record of df_main takes part in the aggregates iff some
\* record of df_main belongs to a later cosecha, i.e. iff its cosecha is not
\* the most recent one of df_main; the day of the query plays no part.
C2_AllButLatestCosecha ==
  (pc \notin {"sidebar", "get_main_data", "global"} /\ Loaded /\ df_main # {})
    => /\ Filtered
       /\ df_fpd = {r \in df_main :
                      \E x \in df_main : r.cosecha_id < x.cosecha_id}

\* A mature record is left out (its cosecha is the most recent one) while an
\* older cosecha is aggregated.
C2_Witness ==
  /\ pc = "tab2" /\ Filtered /\ df_fpd # {}
  /\ \E r \in df_main : Mature(r) /\ r \notin df_fpd

----------------------------------------------------------------------------
(* C4, C5: null grouping keys and count conservation                       *)

\* C4: in every grouped aggregate of tab 1 and tab 3 a record whose grouping
\* attribute is null is counted under 'N/A': for origen2 (df_o), tipo_cliente
\* (df_tc), sucursal (df_r_c) and unidad_regional (df_h).
C4_NullGroupedUnderNA ==
  /\ Tab1Shown =>
       \A r \in Table(data) : r.id_credito \in Ids(df_fpd) =>
         LET m == CHOOSE x \in df_fpd : x.id_credito = r.id_credito IN
         /\ r.origen2 = NULL =>
              \E g \in df_o : g.key = <<m.cosecha_id, Some(NA)>>
         /\ r.tipo_cliente = NULL =>
              \E g \in df_tc : g.key = <<m.cosecha_id, NA>>
         /\ (r.sucursal = NULL /\ m.cosecha_id = ult_c_id) =>
              \E g \in df_r_c : g.key = <<NA>>
  /\ Tab3Shown =>
       \A r \in Table(data) :
         (r.id_credito \in Ids(df_fpd) /\ r.unidad_regional = NULL) =>
           \E g \in df_h : g.key[1] = NA

\* C5: the total counts of the groups of df_t, of df_o and of df_y each add
\* up to the number of records of df_fpd.
C5_CountConservation ==
  Tab1Shown =>
    /\ SumCounts(Range(df_t)) = Cardinality(df_fpd)
    /\ SumCounts(df_o) = Cardinality(df_fpd)
    /\ SumCounts(df_y) = Cardinality(df_fpd)

\* The part of C5 that holds: the groupings whose keys are never null.
C5_HoldsForDateKeys ==
  Tab1Shown =>
    /\ SumCounts(Range(df_t)) = Cardinality(df_fpd)
    /\ SumCounts(df_y) = Cardinality(df_fpd)

----------------------------------------------------------------------------
(* C6: the aggregate rows                                                  *)

\* outcome_count <= total_count, no empty group, rate = outcome * 100 / total
\* within [0, 100], and rate = 0 when outcome_count = 0.
WellFormed(g) ==
  /\ g.id_credito > 0
  /\ 0 <= g.fpd_num /\ g.fpd_num <= g.id_credito
  /\ ~g.pct_FPD.nan
  /\ g.pct_FPD.num = g.fpd_num * 100 /\ g.pct_FPD.den = g.id_credito
  /\ 0 <= g.pct_FPD.num /\ g.pct_FPD.num <= 100 * g.pct_FPD.den
  /\ g.fpd_num = 0 => g.pct_FPD.num = 0

\* C6: every aggregate row of df_t, df_o, df_tc, df_r_c (and of df_y, df_r_p,
\* df_h, df_s) and every row of get_executive_data kept in a df_e is well
\* formed.
C6_AggregateRowsWellFormed ==
  /\ \A g \in Range(df_t) : WellFormed(g)
  /\ \A g \in df_o : WellFormed(g)
  /\ \A g \in df_tc : WellFormed(g)
  /\ \A g \in df_r_c : WellFormed(g)
  /\ \A g \in df_y : WellFormed(g)
  /\ \A g \in df_r_p : WellFormed(g)
  /\ \A g \in df_h : WellFormed(g)
  /\ \A g \in df_s : WellFormed(g)
  /\ \A i \in 1..Len(ExecFields) : \A g \in exec[i].df_e : WellFormed(g)

\* A run has shown a group with a rate strictly between 0 and 100 and an
\* executive block.
C6_Witness ==
  /\ pc = "done"
  /\ \E g \in df_o : 0 < g.fpd_num /\ g.fpd_num < g.id_credito
  /\ \E g \in exec[1].df_e : 0 < g.fpd_num /\ g.fpd_num < g.id_credito

----------------------------------------------------------------------------
(* C7: current and prior period                                            *)

\* C7: ult_c_id / ant_c_id, ult / ant of df_t and u_e / a_e of every
\* executive block are the last cosecha and the one before it (the last again
\* when there is only one), and no run ends in an index-out-of-range or a
\* division by zero.
C7_CurrentAndPrior ==
  /\ "ult_c_id" \in bound =>
       /\ ult_c_id = Current({r.cosecha_id : r \in df_fpd})
       /\ ant_c_id = Prior({r.cosecha_id : r \in df_fpd})
  /\ Tab1Shown =>
       /\ ult.key[1] = Current({r.cosecha_id : r \in df_fpd})
       /\ ant.key[1] = Prior({r.cosecha_id : r \in df_fpd})
  /\ \A i \in 1..Len(ExecFields) : exec[i].df_e # {} =>
       /\ exec[i].u_e = Current({g.key[1] : g \in exec[i].df_e})
       /\ exec[i].a_e = Prior({g.key[1] : g \in exec[i].df_e})
  /\ err \notin {"IndexError", "ZeroDivisionError"}

\* A full pass over a selection that leaves a single cosecha to compare, and
\* one that leaves two.
C7_Witness ==
  /\ pc = "done" /\ err = "" /\ Len(lista_cosechas) = 1
  /\ ult_c_id = ant_c_id /\ ult = ant /\ Len(df_t) = 1
  /\ exec[3].df_e # {} /\ exec[3].u_e = exec[3].a_e

----------------------------------------------------------------------------
(* C8: the export                                                          *)

\* C8 as claimed: the exported rows are the records of the chosen cosecha
\* that pass the global filter (df_fpd) and have outcome FPD.
C8_ExportsOnlyAggregated ==
  (pc = "done" /\ df_main # {})
    => Ids(df_exp) = Ids({r \in df_fpd : r.cosecha_id = cosecha_export
                                          /\ r.fpd_num = 1})

\* C8 as amended: the cosechas offered are the two most recent ones of
\* df_main; the exported rows are exactly the records of df_main of the
\* chosen cosecha with fpd2 = 'FPD', with the columns of those records; they
\* are records the aggregates use only when the chosen cosecha is not the most
\* recent one.
C8_ExportsFromMain ==
  (pc = "done" /\ df_main # {}) =>
    LET C == {r.cosecha_id : r \in df_main} IN
    /\ Range(lista_export) = {c \in C : Cardinality({x \in C : x > c}) < 2}
    /\ cosecha_export \in Range(lista_export)
    /\ Ids(df_exp) = Ids({r \in df_main : r.cosecha_id = cosecha_export
                                           /\ r.fpd_num = 1})
    /\ \A e \in df_exp : \E r \in df_main :
         /\ r.id_credito = e.id_credito /\ e.cosecha = cosecha_export
         /\ e.producto_agrupado = r.producto_agrupado
         /\ e.origen2 = r.origen2 /\ e.monto_otorgado = r.monto_otorgado
         /\ e.sucursal = r.sucursal
    /\ cosecha_export # max_c_real =>
         Ids(df_exp) = Ids({r \in df_fpd : r.cosecha_id = cosecha_export
                                            /\ r.fpd_num = 1})

\* The user exports the most recent cosecha, which no aggregate shows.
C8_Witness ==
  /\ pc = "done" /\ df_fpd # {} /\ cosecha_export = max_c_real
  /\ df_exp # {}
  /\ \E r \in df_main : r.cosecha_id = cosecha_export /\ r.fpd_num = 0

----------------------------------------------------------------------------
(* C9: amount ranges                                                       *)

Binnable(r) == r.monto_otorgado # NULL /\ r.monto_otorgado[1] >= 0

\* Every record with a non-null, non-negative amount is in exactly one bin,
\* the one pd.cut labels it with.
OneBin ==
  \A r \in df_comp : Binnable(r) =>
    /\ Cardinality({i \in 1..Len(bins) : InBin(r.monto_otorgado[1], i)}) = 1
    /\ r.rango # NULL
    /\ \E i \in 1..Len(bins) :
         InBin(r.monto_otorgado[1], i) /\ r.rango = Some(labels[i])

\* C9 as claimed: the bin totals of a cosecha add up to the number of its
\* records in df_comp.
C9_BinTotalsAreAllRecords ==
  Tab3Shown =>
    /\ OneBin
    /\ \A c \in {ult_c_id, ant_c_id} :
         SumCounts({g \in df_s : g.key[1] = c})
           = Cardinality({r \in df_comp : r.cosecha_id = c})

\* C9 as amended: the bin totals of a cosecha add up to the number of its
\* records in df_comp whose amount is non-null and non-negative; a record with
\* a null or negative amount is in no bin.
C9_BinTotalsAreBinnedRecords ==
  Tab3Shown =>
    /\ OneBin
    /\ \A r \in df_comp : ~Binnable(r) => r.rango = NULL
    /\ df_comp = Comp(df_fpd, ult_c_id, ant_c_id)
    /\ \A c \in {ult_c_id, ant_c_id} :
         SumCounts({g \in df_s : g.key[1] = c})
           = Cardinality({r \in df_comp : r.cosecha_id = c /\ Binnable(r)})

\* The compared cosecha holds an amount on a bin edge and one that is null.
C9_Witness ==
  /\ pc = "done" /\ df_s # {}
  /\ \E r \in df_comp : r.monto_otorgado = Some(3000) /\ r.rango = Some("$0-$3k")
  /\ \E r \in df_comp : r.monto_otorgado = NULL

====
